---- MODULE Spec2Model ----
(***************************************************************************)
(* CropVerify - Phase 1 (src/app.py).                                      *)
(*                                                                         *)
(* A Streamlit script: every widget interaction re-executes the script     *)
(* from the top with the widgets' current values.  The script validates    *)
(* the two date ranges (line 76), and when the run button was pressed      *)
(* dispatches to analyze_flood / analyze_drought / analyze_cyclone, which  *)
(* build four (two for drought) Earth Engine composites, reduce them to    *)
(* AOI means, difference them and classify the differences.                *)
(*                                                                         *)
(* Numbers.  SAR means and deltas are whole decibels.  NDVI / NDWI means   *)
(* and deltas are fixed-point hundredths (0.15 is 15, -0.2 is -20).        *)
(*                                                                         *)
(* The Earth Engine backend is outside the repository.  What the script    *)
(* sees of it is modelled as a nondeterministic environment:               *)
(*   - a composite is an ee.Image handle (line 93, 104), never Python      *)
(*     None; its server-side content is an image ("img") or null ("null"), *)
(*     the latter when the filtered collection is empty;                   *)
(*   - val.getInfo() (line 116) answers a number, None (no valid pixel in  *)
(*     the area), or raises (timeout, quota, network, null image); a null  *)
(*     composite never answers a number.                                   *)
(***************************************************************************)
EXTENDS Integers, Sequences, FiniteSets

(* ---------------------------- bounds ---------------------------------- *)
MaxDay == 4
MaxSar == 3
MaxIdx == 4

Days    == 1..MaxDay
SarVals == (0 - MaxSar)..0
IdxVals == {5 * i : i \in 0..MaxIdx}

(* ----------------------- thresholds of the rules ----------------------- *)
FloodSarDrop   == -3
FloodNdwiRise  == 15
DroughtHigh    == -20
DroughtMedium  == -10
CycloneSarMag  == 2
CycloneNdviHigh == -20
CycloneNdviMed == -15

(* ------------------------- optional values ----------------------------- *)
None   == [k |-> "None", v |-> 0]
Raise  == [k |-> "Raise", v |-> 0]
Unset  == [k |-> "Unset", v |-> 0]
Num(x) == [k |-> "Num", v |-> x]

IsNum(o)  == o.k = "Num"
IsNone(o) == o.k = "None"

EventTypes == {"Flood", "Drought", "Cyclone"}
Keys       == {"sar_b", "sar_a", "opt_b", "opt_a"}
SarKeys    == {"sar_b", "sar_a"}
OptKeys    == {"opt_b", "opt_a"}

NoComps   == [key \in Keys |-> "unset"]
NoMeans   == [key \in Keys |-> Unset]
NoResults == [Event |-> "None"]

VARIABLES event_type, baseline_start, baseline_end, event_start, event_end,
          pc, stopped, outcome, comps, means, results, calls

vars == <<event_type, baseline_start, baseline_end, event_start, event_end,
          pc, stopped, outcome, comps, means, results, calls>>

widgets == <<event_type, baseline_start, baseline_end, event_start, event_end>>

(* ------------------------ date range validation ------------------------ *)
InvalidDateRanges(bs, be, es, ee) == bs >= be \/ es >= ee

(* --------------------------- backend ----------------------------------- *)
ValsOf(key) == IF key \in SarKeys THEN SarVals ELSE IdxVals

\* What val.getInfo() may answer for a reduction of composite `key`
\* whose server-side content is `content`.
Answers(key, content) ==
    IF content = "img"
    THEN {Num(x) : x \in ValsOf(key)} \cup {None, Raise}
    ELSE {None, Raise}

\* ee.Image handles define neither __bool__ nor __len__: always truthy.
Truthy(image) == image # "PyNone"

safe_mean(image, answer) ==
    IF image = "PyNone" THEN None ELSE answer

\* Faulty variant of Change: an absent operand counts as zero.
ChangeAbsentAsZero(before, after) ==
    Num((IF IsNum(after) THEN after.v ELSE 0)
        - (IF IsNum(before) THEN before.v ELSE 0))

\* after - before if before is not None and after is not None else None
Change(before, after) ==
    IF IsNum(before) /\ IsNum(after) THEN Num(after.v - before.v) ELSE None

Abs(x) == IF x < 0 THEN 0 - x ELSE x

Raised(m) == \E key \in Keys : m[key] = Raise

(* ------------------------- classification rules ------------------------ *)
\* Faulty variant of FloodRule: the last branch keeps the confidence of the one
\* above it.
FloodRuleStaleConfidence(sar_change, ndwi_change) ==
    IF IsNum(sar_change) /\ sar_change.v <= FloodSarDrop
    THEN [Assessment |-> "Open water flooding detected", Confidence |-> "High"]
    ELSE IF IsNum(ndwi_change) /\ ndwi_change.v >= FloodNdwiRise
    THEN [Assessment |-> "Surface water / waterlogging detected",
          Confidence |-> "Medium"]
    ELSE [Assessment |-> "No strong flood signal detected",
          Confidence |-> "Medium"]

\* app.py lines 141-149
FloodRule(sar_change, ndwi_change) ==
    IF IsNum(sar_change) /\ sar_change.v <= FloodSarDrop
    THEN [Assessment |-> "Open water flooding detected", Confidence |-> "High"]
    ELSE IF IsNum(ndwi_change) /\ ndwi_change.v >= FloodNdwiRise
    THEN [Assessment |-> "Surface water / waterlogging detected",
          Confidence |-> "Medium"]
    ELSE [Assessment |-> "No strong flood signal detected", Confidence |-> "Low"]

\* Faulty variant of DroughtRule: the second comparison is strict.
DroughtRuleStrict(ndvi_change) ==
    IF IsNum(ndvi_change) /\ ndvi_change.v <= DroughtHigh
    THEN [Assessment |-> "Drought stress detected", Confidence |-> "High"]
    ELSE IF IsNum(ndvi_change) /\ ndvi_change.v < DroughtMedium
    THEN [Assessment |-> "Early vegetation stress", Confidence |-> "Medium"]
    ELSE [Assessment |-> "No drought signal detected", Confidence |-> "Low"]

\* app.py lines 177-185
DroughtRule(ndvi_change) ==
    IF IsNum(ndvi_change) /\ ndvi_change.v <= DroughtHigh
    THEN [Assessment |-> "Drought stress detected", Confidence |-> "High"]
    ELSE IF IsNum(ndvi_change) /\ ndvi_change.v <= DroughtMedium
    THEN [Assessment |-> "Early vegetation stress", Confidence |-> "Medium"]
    ELSE [Assessment |-> "No drought signal detected", Confidence |-> "Low"]

\* Faulty variant of CycloneRule: either leg of the first rule is enough.
CycloneRuleEitherLeg(sar_change, ndvi_change) ==
    IF (IsNum(sar_change) /\ Abs(sar_change.v) >= CycloneSarMag)
       \/ ndvi_change.v <= CycloneNdviHigh
    THEN [Assessment |-> "Cyclone-related crop damage likely",
          Confidence |-> "High"]
    ELSE IF ndvi_change.v <= CycloneNdviMed
    THEN [Assessment |-> "Vegetation damage possible", Confidence |-> "Medium"]
    ELSE [Assessment |-> "No strong cyclone damage detected",
          Confidence |-> "Low"]

\* app.py lines 213-221; ndvi_change is a number here (see analyze_cyclone)
CycloneRule(sar_change, ndvi_change) ==
    IF IsNum(sar_change) /\ Abs(sar_change.v) >= CycloneSarMag
                         /\ ndvi_change.v <= CycloneNdviHigh
    THEN [Assessment |-> "Cyclone-related crop damage likely",
          Confidence |-> "High"]
    ELSE IF ndvi_change.v <= CycloneNdviMed
    THEN [Assessment |-> "Vegetation damage possible", Confidence |-> "Medium"]
    ELSE [Assessment |-> "No strong cyclone damage detected",
          Confidence |-> "Low"]

(* --------------------------- the analyses ------------------------------ *)
\* The reductions each analysis issues, in the order it issues them.
\* analyze_flood: lines 127, 128, 131-133, 135-137.
FloodOrder(c) ==
    <<"sar_b", "sar_a">>
    \o (IF Truthy(c["opt_b"]) THEN <<"opt_b">> ELSE <<>>)
    \o (IF Truthy(c["opt_a"]) THEN <<"opt_a">> ELSE <<>>)

\* analyze_drought: lines 168-173.
DroughtOrder(c) == <<"opt_b", "opt_a">>

\* analyze_cyclone: lines 203-206, 208-211.
CycloneOrder(c) ==
    (IF Truthy(c["sar_a"]) /\ Truthy(c["sar_b"])
     THEN <<"sar_a", "sar_b">> ELSE <<>>)
    \o <<"opt_a", "opt_b">>

\* app.py lines 129-162: the result record of analyze_flood from its means.
flood_results(c, m) ==
    LET sar_before  == m["sar_b"]
        sar_after   == m["sar_a"]
        sar_change  == Change(sar_before, sar_after)
        ndwi_before == IF Truthy(c["opt_b"]) THEN m["opt_b"] ELSE None
        ndwi_after  == IF Truthy(c["opt_a"]) THEN m["opt_a"] ELSE None
        ndwi_change == Change(ndwi_before, ndwi_after)
        rule == FloodRule(sar_change, ndwi_change)
    IN  [Event |-> "Flood",
         SAR_Before |-> sar_before,
         SAR_After |-> sar_after,
         SAR_Change |-> sar_change,
         NDWI_Before |-> ndwi_before,
         NDWI_After |-> ndwi_after,
         NDWI_Change |-> ndwi_change,
         Assessment |-> rule.Assessment,
         Confidence |-> rule.Confidence]

\* app.py lines 175-195
drought_results(c, m) ==
    LET ndvi_before == m["opt_b"]
        ndvi_after  == m["opt_a"]
        ndvi_change == Change(ndvi_before, ndvi_after)
        rule == DroughtRule(ndvi_change)
    IN  [Event |-> "Drought",
         NDVI_Before |-> ndvi_before,
         NDVI_After |-> ndvi_after,
         NDVI_Change |-> ndvi_change,
         Assessment |-> rule.Assessment,
         Confidence |-> rule.Confidence]

\* app.py lines 203-230.  Both operands of each subtraction are numbers
\* here: a None operand has raised TypeError before (CycloneTypeError).
cyclone_results(c, m) ==
    LET sar_change == IF Truthy(c["sar_a"]) /\ Truthy(c["sar_b"])
                      THEN Num(m["sar_a"].v - m["sar_b"].v) ELSE None
        ndvi_change == Num(m["opt_a"].v - m["opt_b"].v)
        rule == CycloneRule(sar_change, ndvi_change)
    IN  [Event |-> "Cyclone",
         SAR_Change |-> sar_change,
         NDVI_Change |-> ndvi_change,
         Assessment |-> rule.Assessment,
         Confidence |-> rule.Confidence]

\* Lines 204 and 209-210 subtract the two means without a None guard:
\* once both operands of a subtraction are there, None in either raises.
CycloneTypeError(m) ==
    \/ /\ m["sar_a"] # Unset /\ m["sar_b"] # Unset
       /\ IsNone(m["sar_a"]) \/ IsNone(m["sar_b"])
    \/ /\ m["opt_a"] # Unset /\ m["opt_b"] # Unset
       /\ IsNone(m["opt_a"]) \/ IsNone(m["opt_b"])

(* ----------------------------- the script ------------------------------ *)
Init ==
    /\ event_type = "Flood"
    /\ baseline_start = 1
    /\ baseline_end = 2
    /\ event_start = 3
    /\ event_end = 4
    /\ pc = "page"
    /\ stopped = FALSE
    /\ outcome = "Idle"
    /\ comps = NoComps
    /\ means = NoMeans
    /\ results = NoResults
    /\ calls = 0

\* One execution of the script without the run button pressed (lines 76-78,
\* 236-238): the previous run's output is gone, the dates are validated.
Rerun(bs, be, es, ee) ==
    /\ pc = "page"
    /\ pc' = "page"
    /\ stopped' = InvalidDateRanges(bs, be, es, ee)
    /\ outcome' = IF InvalidDateRanges(bs, be, es, ee)
                  THEN "InvalidWindow" ELSE "Idle"
    /\ comps' = NoComps
    /\ means' = NoMeans
    /\ results' = NoResults
    /\ calls' = 0

SelectEventType(et) ==
    /\ et # event_type
    /\ event_type' = et
    /\ UNCHANGED <<baseline_start, baseline_end, event_start, event_end>>
    /\ Rerun(baseline_start, baseline_end, event_start, event_end)

SetBaselineStart(d) ==
    /\ d # baseline_start
    /\ baseline_start' = d
    /\ UNCHANGED <<event_type, baseline_end, event_start, event_end>>
    /\ Rerun(d, baseline_end, event_start, event_end)

SetBaselineEnd(d) ==
    /\ d # baseline_end
    /\ baseline_end' = d
    /\ UNCHANGED <<event_type, baseline_start, event_start, event_end>>
    /\ Rerun(baseline_start, d, event_start, event_end)

SetEventStart(d) ==
    /\ d # event_start
    /\ event_start' = d
    /\ UNCHANGED <<event_type, baseline_start, baseline_end, event_end>>
    /\ Rerun(baseline_start, baseline_end, d, event_end)

SetEventEnd(d) ==
    /\ d # event_end
    /\ event_end' = d
    /\ UNCHANGED <<event_type, baseline_start, baseline_end, event_start>>
    /\ Rerun(baseline_start, baseline_end, event_start, d)

\* The server-side content of the composites an analysis builds.
Composites(used) ==
    {c \in [Keys -> {"unset", "img", "null"}] :
        \A key \in Keys : c[key] = "unset" <=> key \notin used}

UsedKeys(et) == IF et = "Drought" THEN OptKeys ELSE Keys

\* The run button is pressed (line 236).  The button exists only when the
\* last execution got past st.stop() (line 78).  The script is executed
\* again with run = True: the dates pass line 76 again, the dispatch (lines
\* 242-247) enters the analysis of event_type, which builds its composites
\* (lines 122-125, 165-166, 198-201).  No reduction has been issued yet.
PressRun ==
    /\ pc = "page"
    /\ ~stopped
    /\ ~InvalidDateRanges(baseline_start, baseline_end, event_start, event_end)
    /\ \E c \in Composites(UsedKeys(event_type)) : comps' = c
    /\ pc' = "running"
    /\ outcome' = "Running"
    /\ means' = NoMeans
    /\ results' = NoResults
    /\ calls' = Cardinality(UsedKeys(event_type))
    /\ UNCHANGED <<widgets, stopped>>

\* The result record the analysis of event type et returns (lines 242-247).
Results(et, c, m) ==
    CASE et = "Flood" -> flood_results(c, m)
      [] et = "Drought" -> drought_results(c, m)
      [] OTHER -> cyclone_results(c, m)

\* One reduction (safe_mean) of the running analysis and what follows it up
\* to the next reduction: an exception ends the run, the last reduction is
\* followed by the classification and the result record.
Reduce(order, typeErrors) ==
    LET pending == {i \in 1..Len(order) : means[order[i]] = Unset}
        i   == CHOOSE n \in pending : \A o \in pending : n <= o
        key == order[i]
    IN  /\ pc = "running"
        /\ pending # {}
        /\ \E answer \in Answers(key, comps[key]) :
              LET m == [means EXCEPT ![key] = safe_mean(comps[key], answer)]
              IN  /\ means' = m
                  /\ calls' = calls + 1
                  /\ IF m[key] = Raise \/ (typeErrors /\ CycloneTypeError(m))
                     THEN /\ pc' = "page"
                          /\ outcome' = "Raised"
                          /\ results' = NoResults
                     ELSE IF pending = {i}
                     THEN /\ pc' = "page"
                          /\ outcome' = "Assessment"
                          /\ results' = Results(event_type, comps, m)
                     ELSE /\ pc' = "running"
                          /\ UNCHANGED <<outcome, results>>
        /\ UNCHANGED <<widgets, stopped, comps>>

analyze_flood ==
    /\ event_type = "Flood"
    /\ Reduce(FloodOrder(comps), FALSE)

analyze_drought ==
    /\ event_type = "Drought"
    /\ Reduce(DroughtOrder(comps), FALSE)

analyze_cyclone ==
    /\ event_type = "Cyclone"
    /\ Reduce(CycloneOrder(comps), TRUE)

Next ==
    \/ \E et \in EventTypes : SelectEventType(et)
    \/ \E d \in Days : SetBaselineStart(d)
    \/ \E d \in Days : SetBaselineEnd(d)
    \/ \E d \in Days : SetEventStart(d)
    \/ \E d \in Days : SetEventEnd(d)
    \/ PressRun
    \/ analyze_flood
    \/ analyze_drought
    \/ analyze_cyclone

Spec == Init /\ [][Next]_vars

(* ------------------------------ properties ----------------------------- *)
RunEnded == pc = "page" /\ outcome \in {"Assessment", "Raised"}

HasAssessment(et) ==
    pc = "page" /\ outcome = "Assessment" /\ results.Event = et

ValidWindows ==
    /\ baseline_start < baseline_end
    /\ baseline_end < event_start
    /\ event_start < event_end

NoBackendFailure == ~Raised(means)

\* C1: a run started with valid windows (baseline.start < baseline.end <
\* event.start < event.end) in which no backend call fails never raises,
\* whatever values are present or absent: it ends in an Assessment or an
\* InsufficientData outcome.
C1_ValidRunNeverRaises ==
    (RunEnded /\ ValidWindows /\ NoBackendFailure)
        => outcome \in {"Assessment", "InsufficientData"}

AllCompositesAbsent ==
    \A key \in UsedKeys(event_type) : comps[key] = "null"

\* C2: when every composite the event type uses is absent, the run ends in
\* an InsufficientData outcome and no classification is produced.
C2_TotalAbsenceIsInsufficientData ==
    (RunEnded /\ AllCompositesAbsent)
        => (outcome = "InsufficientData" /\ results = NoResults)

InvalidWindow ==
    \/ baseline_start >= baseline_end
    \/ event_start >= event_end
    \/ event_start <= baseline_end

\* C3: while the windows are invalid (a start not before its end, or the
\* event window not strictly after the baseline window) no composite
\* retrieval or reduction is issued and no analysis is reached.
C3_InvalidWindowNoBackendCall ==
    InvalidWindow
        => (calls = 0 /\ pc = "page" /\ outcome \notin {"Assessment", "Raised"})

\* C4: a drought run whose NDVI before or NDVI after is absent ends in an
\* explicit insufficient-data outcome, never in an Assessment.
C4_DroughtUndefinedDeltaInsufficient ==
    (/\ RunEnded
     /\ event_type = "Drought"
     /\ NoBackendFailure
     /\ IsNone(means["opt_b"]) \/ IsNone(means["opt_a"]))
        => outcome = "InsufficientData"

\* The ordered four-rule flood table, as the specification states it.
FloodTable(dsar, dndwi) ==
    IF IsNum(dsar) /\ dsar.v <= -3
    THEN <<"Open water flooding detected", "High">>
    ELSE IF IsNum(dsar) /\ dsar.v >= 1
    THEN <<"Flooded standing crops detected", "High">>
    ELSE IF IsNum(dndwi) /\ dndwi.v >= 15
    THEN <<"Surface water / waterlogging detected", "Medium">>
    ELSE <<"No strong flood signal detected", "Low">>

\* C5: the flood analysis returns exactly the result of the ordered
\* four-rule table applied to (SAR change, NDWI change).
C5_FloodFollowsFourRuleTable ==
    HasAssessment("Flood")
        => <<results.Assessment, results.Confidence>>
               = FloodTable(results.SAR_Change, results.NDWI_Change)

\* C6: for every defined NDVI change d the drought analysis returns
\* 'Drought stress detected'/High exactly when d <= -0.2, 'Early vegetation
\* stress'/Medium exactly when -0.2 < d <= -0.1, and 'No drought signal
\* detected'/Low exactly when d > -0.1.
C6_DroughtThresholds ==
    (HasAssessment("Drought") /\ IsNum(results.NDVI_Change))
        => LET d == results.NDVI_Change.v
               r == <<results.Assessment, results.Confidence>>
           IN  /\ r = <<"Drought stress detected", "High">> <=> d <= -20
               /\ r = <<"Early vegetation stress", "Medium">>
                      <=> (-20 < d /\ d <= -10)
               /\ r = <<"No drought signal detected", "Low">> <=> d > -10

\* A drought run at the boundary -0.10, answered 'Early vegetation stress'.
C6_Witness ==
    /\ HasAssessment("Drought")
    /\ results.NDVI_Change = Num(-10)
    /\ results.Assessment = "Early vegetation stress"

\* C7: the cyclone analysis returns 'Cyclone-related crop damage likely'/
\* High if and only if the SAR change is defined, its magnitude is >= 2.0
\* and the NDVI change is <= -0.2; otherwise 'Vegetation damage possible'/
\* Medium exactly when the NDVI change is <= -0.15; otherwise 'No strong
\* cyclone damage detected'/Low.
C7_CycloneConjunctiveRule ==
    HasAssessment("Cyclone")
        => LET s == results.SAR_Change
               d == results.NDVI_Change
               r == <<results.Assessment, results.Confidence>>
               both == IsNum(s) /\ (s.v >= 2 \/ s.v <= -2)
                       /\ IsNum(d) /\ d.v <= -20
           IN  /\ r = <<"Cyclone-related crop damage likely", "High">> <=> both
               /\ r = <<"Vegetation damage possible", "Medium">>
                      <=> (~both /\ IsNum(d) /\ d.v <= -15)
               /\ r = <<"No strong cyclone damage detected", "Low">>
                      <=> (~both /\ ~(IsNum(d) /\ d.v <= -15))

\* A cyclone run with a large SAR change and an NDVI change of -0.1,
\* answered 'No strong cyclone damage detected'.
C7_Witness ==
    /\ HasAssessment("Cyclone")
    /\ results.SAR_Change = Num(3)
    /\ results.NDVI_Change = Num(-10)
    /\ results.Confidence = "Low"

DeltaOf(before, after, delta) ==
    /\ IsNum(delta) <=> (IsNum(before) /\ IsNum(after))
    /\ IsNum(delta) => delta.v = after.v - before.v
    /\ ~IsNum(delta) => delta = None

\* C8: in every result of the three analyses each index's delta is defined
\* if and only if both its before and its after value are defined, and then
\* equals after minus before; an absent value never gives a numeric delta.
C8_DeltaDefinedIffBoth ==
    /\ HasAssessment("Flood") =>
          /\ DeltaOf(results.SAR_Before, results.SAR_After, results.SAR_Change)
          /\ DeltaOf(results.NDWI_Before, results.NDWI_After,
                     results.NDWI_Change)
          /\ results.SAR_Before = means["sar_b"]
          /\ results.SAR_After = means["sar_a"]
          /\ results.NDWI_Before = means["opt_b"]
          /\ results.NDWI_After = means["opt_a"]
    /\ HasAssessment("Drought") =>
          /\ DeltaOf(results.NDVI_Before, results.NDVI_After,
                     results.NDVI_Change)
          /\ results.NDVI_Before = means["opt_b"]
          /\ results.NDVI_After = means["opt_a"]
    /\ HasAssessment("Cyclone") =>
          /\ DeltaOf(means["sar_b"], means["sar_a"], results.SAR_Change)
          /\ DeltaOf(means["opt_b"], means["opt_a"], results.NDVI_Change)

\* A flood result whose SAR before value is absent and after value present
\* (delta undefined) and whose NDWI delta is a defined non-zero difference.
C8_Witness ==
    /\ HasAssessment("Flood")
    /\ results.SAR_Before = None
    /\ IsNum(results.SAR_After) /\ results.SAR_After.v # 0
    /\ results.SAR_Change = None
    /\ results.NDWI_Before = Num(5)
    /\ results.NDWI_After = Num(20)
    /\ results.NDWI_Change = Num(15)

\* C9: when one backend call fails while another reduction of the same run
\* succeeded, the failure is caught and the run still completes with an
\* outcome instead of aborting.
C9_SingleFailureIsCaught ==
    (/\ pc = "page"
     /\ \E key \in Keys : means[key] = Raise
     /\ \E key \in Keys : IsNum(means[key]))
        => outcome # "Raised"

NoSignalLabels ==
    {"No strong flood signal detected", "No drought signal detected",
     "No strong cyclone damage detected"}

\* The delta the rule behind a label rests on is defined and crosses the
\* rule's threshold.
Justified(r) ==
    CASE r.Assessment = "Open water flooding detected" ->
            IsNum(r.SAR_Change) /\ r.SAR_Change.v <= -3
      [] r.Assessment = "Surface water / waterlogging detected" ->
            IsNum(r.NDWI_Change) /\ r.NDWI_Change.v >= 15
      [] r.Assessment = "Drought stress detected" ->
            IsNum(r.NDVI_Change) /\ r.NDVI_Change.v <= -20
      [] r.Assessment = "Early vegetation stress" ->
            IsNum(r.NDVI_Change) /\ r.NDVI_Change.v <= -10
      [] r.Assessment = "Cyclone-related crop damage likely" ->
            /\ IsNum(r.SAR_Change)
            /\ r.SAR_Change.v >= 2 \/ r.SAR_Change.v <= -2
            /\ IsNum(r.NDVI_Change) /\ r.NDVI_Change.v <= -20
      [] r.Assessment = "Vegetation damage possible" ->
            IsNum(r.NDVI_Change) /\ r.NDVI_Change.v <= -15
      [] OTHER -> FALSE

\* C10: in every Assessment, confidence High or Medium occurs only when a
\* delta of the event type is defined and crosses the threshold of the rule
\* that fired, and every 'No ... detected' label carries confidence Low.
C10_ConfidenceJustified ==
    (pc = "page" /\ outcome = "Assessment")
        => /\ results.Confidence \in {"Low", "Medium", "High"}
           /\ results.Confidence \in {"Medium", "High"} => Justified(results)
           /\ results.Assessment \in NoSignalLabels
                 => results.Confidence = "Low"

\* A flood Assessment with both deltas undefined, answered with a
\* 'No ... detected' label at confidence Low.
C10_Witness ==
    /\ HasAssessment("Flood")
    /\ results.SAR_Change = None
    /\ results.NDWI_Change = None
    /\ results.Assessment \in NoSignalLabels
    /\ results.Confidence = "Low"

====
